---- MODULE Spec2Model ----
(***************************************************************************)
(* Weather ETL: dags/etl_functions.py (wind_strength, extract, transform,  *)
(* validate, load_daily, load_monthly) and the task graph of               *)
(* dags/airflow_dag_weather_etl.py.                                         *)
(*                                                                         *)
(* Numbers are exact rationals <<n, d>> (d > 0, lowest terms); the missing *)
(* value (NaN) is <<0, 0>>.  pandas computes in binary floating point; the *)
(* only place in the modelled range where that differs from the exact      *)
(* value is wind_strength at 102.6 km/h (28.499999999999996 m/s instead    *)
(* of 28.5).                                                               *)
(***************************************************************************)
EXTENDS Integers, Sequences, FiniteSets, TLC

VARIABLES
    kmh, strength, wpc,                 \* wind_strength: argument, result, position
    raw, df, df2, daily, monthly, tpc,  \* transform: input rows, frames, position
    dailyFile, vres,                    \* daily_weather.csv and validate's outcome
    task, tries, at, files, written,    \* one DAG run: task instances, attempts, outputs
    inv, table, lastLoaded, leaks       \* load invocations and the sink

windVars == <<kmh, strength, wpc>>
transVars == <<raw, df, df2, daily, monthly, tpc>>
valVars == <<dailyFile, vres>>
dagVars == <<task, tries, at, files, written>>
loadVars == <<inv, table, lastLoaded, leaks>>
vars == <<windVars, transVars, valVars, dagVars, loadVars>>

----------------------------------------------------------------------------
(* Bounds *)

\* wind speeds 0.0 .. MaxKmh10/10 km/h, in steps of 0.1
MaxKmh10 == 1200
\* rows of a raw file / of a daily dataset
MaxRows == 3
\* instants per calendar day, calendar days per calendar month
TicksPerDay == 2
DaysPerMonth == 2
\* rows of a daily dataset handed to validate on its own
MaxDailyRows == 2
\* concurrent load invocations, and leaked connections counted
MaxLoads == 2
MaxLeaks == 2

----------------------------------------------------------------------------
(* Exact arithmetic *)

RECURSIVE GCD(_, _)
GCD(a, b) == IF b = 0 THEN a ELSE GCD(b, a % b)

Abs(x) == IF x < 0 THEN -x ELSE x

NaN == <<0, 0>>
IsNaN(x) == x[2] = 0

Rat(n, d) ==
    LET g == GCD(Abs(n), Abs(d))
        s == IF d < 0 THEN -1 ELSE 1
    IN  IF d = 0 THEN NaN ELSE <<s * (n \div g), s * (d \div g)>>

RInt(n) == <<n, 1>>
RAdd(a, b) == Rat(a[1] * b[2] + b[1] * a[2], a[2] * b[2])
RDiv(a, b) == Rat(a[1] * b[2], a[2] * b[1])
\* comparisons with NaN are False, as in IEEE 754
RLe(a, b) == ~IsNaN(a) /\ ~IsNaN(b) /\ a[1] * b[2] <= b[1] * a[2]
RLt(a, b) == ~IsNaN(a) /\ ~IsNaN(b) /\ a[1] * b[2] < b[1] * a[2]

SeqsUpTo(S, n) == UNION {[1..k -> S] : k \in 0..n}

Range(s) == {s[i] : i \in DOMAIN s}

RECURSIVE RSum(_)
RSum(s) == IF s = <<>> THEN RInt(0) ELSE RAdd(s[1], RSum(Tail(s)))

\* Series.mean(): the mean of the non-missing values, NaN when there is none
Mean(s) ==
    LET v == SelectSeq(s, LAMBDA x : ~IsNaN(x))
    IN  IF v = <<>> THEN NaN ELSE RDiv(RSum(v), RInt(Len(v)))

\* Series.max(): the largest non-missing value, NaN when there is none
Max(s) ==
    LET v == {x \in Range(s) : ~IsNaN(x)}
    IN  IF v = {} THEN NaN ELSE CHOOSE x \in v : \A y \in v : RLe(y, x)

Column(rows, c) == [i \in DOMAIN rows |-> rows[i][c]]

----------------------------------------------------------------------------
(* wind_strength *)

\* the scale table, in tenths of m/s; Inf stands for float("inf")
Inf == -1
scale == <<
    <<0, 15, "Calm">>, <<16, 33, "Light Air">>, <<34, 54, "Light Breeze">>,
    <<55, 79, "Gentle Breeze">>, <<80, 107, "Moderate Breeze">>,
    <<108, 138, "Fresh Breeze">>, <<139, 171, "Strong Breeze">>,
    <<172, 207, "Near Gale">>, <<208, 244, "Gale">>,
    <<245, 284, "Strong Gale">>, <<285, 326, "Storm">>,
    <<327, Inf, "Violent Storm">> >>

Labels == {scale[i][3] : i \in DOMAIN scale}

\* mps = kmh / 3.6
ToMps(k) == RDiv(k, Rat(36, 10))

\* lo <= mps <= hi
InInterval(mps, i) ==
    /\ RLe(Rat(scale[i][1], 10), mps)
    /\ (scale[i][2] = Inf \/ RLe(mps, Rat(scale[i][2], 10)))

Hits(k) == {i \in DOMAIN scale : InInterval(ToMps(k), i)}

\* the label of the first interval that holds mps; "nan" for a missing
\* argument; "None" when the loop ends without a return
wind_strength(k) ==
    IF IsNaN(k) THEN "nan"
    ELSE IF Hits(k) = {} THEN "None"
    ELSE scale[CHOOSE i \in Hits(k) : \A j \in Hits(k) : i <= j][3]

WindIdle == kmh = NaN /\ strength = "" /\ wpc = "idle"

WindStart ==
    /\ kmh \in {Rat(k, 10) : k \in 0..MaxKmh10} \cup {NaN}
    /\ strength = ""
    /\ wpc = "call"

Classify ==
    /\ wpc = "call"
    /\ strength' = wind_strength(kmh)
    /\ wpc' = "done"
    /\ UNCHANGED <<kmh, transVars, valVars, dagVars, loadVars>>

----------------------------------------------------------------------------
(* transform: cleaning *)

\* A raw "Formatted Date" cell: a local time with a UTC offset, or text
\* that is no date.  A parsed cell: the UTC instant, or NaT.
NaT == -1
BadDate == [local |-> 0, off |-> 0, ok |-> FALSE]
Stamp(l, o) == [local |-> l, off |-> o, ok |-> TRUE]

\* pd.to_datetime(cell, utc=True, errors="coerce")
ParseDate(c) == IF c.ok THEN c.local - c.off ELSE NaT

\* a UTC instant written back as text
FormatDate(t) == IF t = NaT THEN BadDate ELSE Stamp(t, 0)

ToDatetime(rows) == [i \in DOMAIN rows |-> [rows[i] EXCEPT !.ts = ParseDate(@)]]

\* dropna(subset=["Formatted Date"])
DropNaT(rows) == SelectSeq(rows, LAMBDA r : r.ts # NaT)

\* drop_duplicates() left out
KeepDuplicates(rows) == rows

\* drop_duplicates(): the first of every group of equal rows is kept
RECURSIVE DropDuplicates(_)
DropDuplicates(rows) ==
    IF rows = <<>> THEN <<>>
    ELSE LET n == Len(rows)
             front == DropDuplicates(SubSeq(rows, 1, n - 1))
         IN  IF rows[n] \in Range(front) THEN front ELSE Append(front, rows[n])

\* the rescale decided against 100 instead of 1
NormalizeHumidityOver100(rows) ==
    IF RLt(RInt(100), Max(Column(rows, "hum")))
    THEN [i \in DOMAIN rows |-> [rows[i] EXCEPT !.hum = RDiv(@, RInt(100))]]
    ELSE rows

\* if df["Humidity"].max() > 1: df["Humidity"] = df["Humidity"] / 100.0
NormalizeHumidity(rows) ==
    IF RLt(RInt(1), Max(Column(rows, "hum")))
    THEN [i \in DOMAIN rows |-> [rows[i] EXCEPT !.hum = RDiv(@, RInt(100))]]
    ELSE rows

FillCell(x, m) == IF IsNaN(x) THEN m ELSE x

\* df.fillna(df.mean(numeric_only=True)): "Precip Type" is not numeric
FillNa(rows) ==
    LET mt == Mean(Column(rows, "temp"))
        mh == Mean(Column(rows, "hum"))
        mw == Mean(Column(rows, "wind"))
    IN  [i \in DOMAIN rows |->
            [rows[i] EXCEPT !.temp = FillCell(@, mt),
                            !.hum = FillCell(@, mh),
                            !.wind = FillCell(@, mw)]]

CleanSteps(rows) ==
    FillNa(NormalizeHumidity(DropDuplicates(DropNaT(ToDatetime(rows)))))

\* a cleaned frame as a table of raw cells again
AsRaw(rows) == [i \in DOMAIN rows |-> [rows[i] EXCEPT !.ts = FormatDate(@)]]

TransIdle ==
    /\ raw = <<>> /\ df = <<>> /\ df2 = <<>>
    /\ daily = <<>> /\ monthly = <<>> /\ tpc = "idle"

ValIdle == dailyFile = [hasWind |-> TRUE, rows |-> <<>>] /\ vres = "none"

Rows(T, Te, H, W, P) == [ts : T, temp : Te, hum : H, wind : W, precip : P]

TransStart(S) ==
    /\ raw \in SeqsUpTo(S, MaxRows)
    /\ df = <<>> /\ df2 = <<>> /\ daily = <<>> /\ monthly = <<>>
    /\ tpc = "start"

\* transform, lines 56-65
Clean ==
    /\ tpc = "start"
    /\ df' = CleanSteps(raw)
    /\ tpc' = "cleaned"
    /\ UNCHANGED <<raw, df2, daily, monthly, windVars, valVars, dagVars, loadVars>>

\* the cleaning steps applied to their own output
CleanAgain ==
    /\ tpc = "cleaned"
    /\ df2' = CleanSteps(AsRaw(df))
    /\ tpc' = "recleaned"
    /\ UNCHANGED <<raw, df, daily, monthly, windVars, valVars, dagVars, loadVars>>

----------------------------------------------------------------------------
(* Parts of the state a specification leaves alone *)

Tasks == {"extract_data", "transform_data", "validate_data", "load_daily", "load_monthly"}
Tables == {"daily_weather", "monthly_weather"}

DagIdle ==
    /\ task = [t \in Tasks |-> "none"]
    /\ tries = [t \in Tasks |-> 0]
    /\ at = "-"
    /\ files = {}
    /\ written = {}

NoInvocation == [pc |-> "idle", target |-> "daily_weather", frame |-> <<>>, conn |-> "none"]

LoadIdle ==
    /\ inv = [i \in 1..MaxLoads |-> NoInvocation]
    /\ table = [t \in Tables |-> <<>>]
    /\ lastLoaded = [t \in Tables |-> <<>>]
    /\ leaks = 0

----------------------------------------------------------------------------
(* Cleaning: the cleaning steps over bounded raw files *)

CleanDates == {BadDate, Stamp(0, 0), Stamp(1, 1)}
CleanTemps == {NaN, RInt(10)}
CleanHums == {NaN, Rat(1, 2), RInt(50), RInt(150)}

CleanInputs == Rows(CleanDates, CleanTemps, CleanHums, {RInt(5)}, {"nan"})

InitClean == TransStart(CleanInputs) /\ WindIdle /\ ValIdle /\ DagIdle /\ LoadIdle

NextClean == Clean \/ CleanAgain

SpecClean == InitClean /\ [][NextClean]_vars

HasDuplicates(rows) == \E i, j \in DOMAIN rows : i < j /\ rows[i] = rows[j]

\* every raw humidity is missing, a fraction in [0,1] or a percentage in [0,100]
RawHumidityInDomain ==
    \A i \in DOMAIN raw : IsNaN(raw[i].hum) \/ (RLe(RInt(0), raw[i].hum) /\ RLe(raw[i].hum, RInt(100)))

InUnit(x) == RLe(RInt(0), x) /\ RLe(x, RInt(1))

\* C4 as stated, read with the data model's humidity domain ([0,1] or [0,100]):
\* cleaning its own output gives the same set of rows as cleaning once, and the
\* output of one pass holds no exact-duplicate row and no missing timestamp.
C4_Original ==
    (tpc = "recleaned" /\ RawHumidityInDomain) =>
        /\ Range(df2) = Range(df)
        /\ ~HasDuplicates(df)
        /\ \A i \in DOMAIN df : df[i].ts # NaT

\* C4 amended: for raw humidities in [0,100], cleaning the output of one pass
\* gives the same set of distinct rows, with no missing timestamp in either and
\* no exact-duplicate row after the second pass (the first pass may leave rows
\* that mean-imputation made equal).
C4_Idempotent ==
    (tpc = "recleaned" /\ RawHumidityInDomain) =>
        /\ Range(df2) = Range(df)
        /\ ~HasDuplicates(df2)
        /\ \A i \in DOMAIN df : df[i].ts # NaT
        /\ \A i \in DOMAIN df2 : df2[i].ts # NaT

\* a raw file with a bad date and a percentage humidity was cleaned twice: the
\* first pass left two rows that imputation made equal, the second dropped one
C4_Witness ==
    /\ tpc = "recleaned"
    /\ RawHumidityInDomain
    /\ HasDuplicates(df)
    /\ Len(df2) < Len(df)
    /\ \E i \in DOMAIN raw : ~raw[i].ts.ok
    /\ \E i \in DOMAIN raw : raw[i].hum = RInt(50)

\* C5 as stated: raw humidities in [0,1] or [0,100] give cleaned humidities in
\* [0,1] in every row.
C5_Original ==
    (tpc # "start" /\ RawHumidityInDomain) => \A i \in DOMAIN df : InUnit(df[i].hum)

SomeHumidityKept == \E i \in DOMAIN raw : raw[i].ts.ok /\ ~IsNaN(raw[i].hum)

\* C5 amended: raw humidities in [0,1] or [0,100], at least one of them present
\* in a row with a parseable timestamp, give cleaned humidities in [0,1] in
\* every row.
C5_HumidityInUnit ==
    (tpc # "start" /\ RawHumidityInDomain /\ SomeHumidityKept) =>
        \A i \in DOMAIN df : InUnit(df[i].hum)

\* a percentage column with a missing value was rescaled and imputed
C5_Witness ==
    /\ tpc = "cleaned"
    /\ RawHumidityInDomain
    /\ \E i \in DOMAIN raw : raw[i].ts.ok /\ raw[i].hum = RInt(50)
    /\ \E i \in DOMAIN raw : raw[i].ts.ok /\ IsNaN(raw[i].hum)
    /\ \A i \in DOMAIN df : df[i].hum = Rat(1, 2)
    /\ Len(df) >= 2

----------------------------------------------------------------------------
(* transform: aggregation and enrichment *)

DayOf(t) == t \div TicksPerDay
MonthOfDay(d) == d \div DaysPerMonth
MonthOf(t) == MonthOfDay(DayOf(t))

\* the label resample("M") gives a month's row: midnight of its last day
MonthEnd(m) == ((m + 1) * DaysPerMonth - 1) * TicksPerDay

\* Period.astype(str)
PeriodStr(m) == ToString(m)

SetMin(S) == CHOOSE x \in S : \A y \in S : x <= y
SetMax(S) == CHOOSE x \in S : \A y \in S : y <= x

\* the buckets of resample(rule): every bucket from the first observation's to
\* the last one's, in order, also those with no observation
Buckets(ks) ==
    IF ks = {} THEN <<>>
    ELSE [i \in 1..(SetMax(ks) - SetMin(ks) + 1) |-> SetMin(ks) + i - 1]

DayKeys(rows) == {DayOf(rows[i].ts) : i \in DOMAIN rows}
MonthKeys(rows) == {MonthOf(rows[i].ts) : i \in DOMAIN rows}

\* groupby instead of resample: only the days that have an observation
ObservedDayBuckets(rows) ==
    SelectSeq(Buckets(DayKeys(rows)), LAMBDA d : d \in DayKeys(rows))

DayBuckets(rows) == Buckets(DayKeys(rows))
MonthBuckets(rows) == Buckets(MonthKeys(rows))

InDay(rows, d) == SelectSeq(rows, LAMBDA r : DayOf(r.ts) = d)
InMonth(rows, m) == SelectSeq(rows, LAMBDA r : MonthOf(r.ts) = m)

\* .mean() of the numeric columns over one bucket
BucketMeans(g) ==
    [temp |-> Mean(Column(g, "temp")),
     hum |-> Mean(Column(g, "hum")),
     wind |-> Mean(Column(g, "wind"))]

\* lines 71-79: df[numeric_cols].resample("D").mean().reset_index(), then
\* daily["wind_strength"] = daily[wind_col].apply(wind_strength)
DailyFrame(rows) ==
    LET b == DayBuckets(rows)
    IN  [i \in DOMAIN b |->
            LET m == BucketMeans(InDay(rows, b[i]))
            IN  [day |-> b[i], temp |-> m.temp, hum |-> m.hum, wind |-> m.wind,
                 wind_strength |-> wind_strength(m.wind)]]

\* to_csv: a missing value and None are both written as an empty cell
CsvText(v) == IF v \in {"nan", "None"} THEN "" ELSE v

ToCsv(rows) ==
    [hasWind |-> TRUE,
     rows |-> [i \in DOMAIN rows |-> [rows[i] EXCEPT !.wind_strength = CsvText(@)]]]

\* lines 85-86: resample("M").mean().reset_index(), and the month label
MonthlyMeans(rows) ==
    LET b == MonthBuckets(rows)
    IN  [i \in DOMAIN b |->
            LET m == BucketMeans(InMonth(rows, b[i]))
            IN  [date |-> MonthEnd(b[i]), month |-> PeriodStr(MonthOf(MonthEnd(b[i]))),
                 temp |-> m.temp, hum |-> m.hum, wind |-> m.wind]]

\* precipitation types in sorted order
PrecipSorted == <<"rain", "snow">>
PrecipRank(p) == CHOOSE i \in DOMAIN PrecipSorted : PrecipSorted[i] = p

Count(x, v) == Cardinality({i \in DOMAIN x : x[i] = v})

\* Series.mode(): the most frequent non-missing values, sorted
Modes(x) ==
    LET present == {v \in Range(x) : v # "nan"}
        top == {v \in present : \A w \in present : Count(x, w) <= Count(x, v)}
    IN  SelectSeq(PrecipSorted, LAMBDA v : v \in top)

\* the last of the sorted modes instead of the first
LastMode(x) == IF Modes(x) = <<>> THEN "nan" ELSE Modes(x)[Len(Modes(x))]

\* lambda x: x.mode().iloc[0] if not x.mode().empty else np.nan
FirstMode(x) == IF Modes(x) = <<>> THEN "nan" ELSE Modes(x)[1]

\* the modes grouped by day and keyed by the day's month
ModeSeriesPerDay(rows) ==
    {<<PeriodStr(MonthOfDay(d)), FirstMode(Column(InDay(rows, d), "precip"))>> : d \in DayKeys(rows)}

\* lines 89-95: one entry per month that has a row, keyed by the month's text
ModeSeries(rows) ==
    {<<PeriodStr(m), FirstMode(Column(InMonth(rows, m), "precip"))>> : m \in MonthKeys(rows)}

SetToSeq(S) ==
    LET f[T \in SUBSET S] ==
            IF T = {} THEN <<>>
            ELSE LET x == CHOOSE y \in T : TRUE IN Append(f[T \ {x}], x)
    IN  f[S]

WithMode(r, v) ==
    [date |-> r.date, month |-> r.month, temp |-> r.temp, hum |-> r.hum,
     wind |-> r.wind, mode_precip_type |-> v]

\* lines 98-103: monthly.merge(mode, left_on="month", right_index=True,
\* how="left"): one output row per matching entry, one with a missing mode when
\* there is none
RECURSIVE MergeLeft(_, _)
MergeLeft(left, right) ==
    IF left = <<>> THEN <<>>
    ELSE LET r == Head(left)
             hit == SetToSeq({e \in right : e[1] = r.month})
             out == IF hit = <<>>
                    THEN <<WithMode(r, "nan")>>
                    ELSE [i \in DOMAIN hit |-> WithMode(r, hit[i][2])]
         IN  out \o MergeLeft(Tail(left), right)

MonthlyFrame(rows) == MergeLeft(MonthlyMeans(rows), ModeSeries(rows))

\* transform, lines 71-82
DailyAgg ==
    /\ tpc = "cleaned"
    /\ daily' = DailyFrame(df)
    /\ dailyFile' = ToCsv(daily')
    /\ tpc' = "daily"
    /\ UNCHANGED <<raw, df, df2, monthly, vres, windVars, dagVars, loadVars>>

\* transform, lines 85-108
MonthlyAgg ==
    /\ tpc = "daily"
    /\ monthly' = MonthlyFrame(df)
    /\ tpc' = "returned"
    /\ vres' = "pending"
    /\ UNCHANGED <<raw, df, df2, daily, dailyFile, windVars, dagVars, loadVars>>

----------------------------------------------------------------------------
(* validate *)

\* Series.between(lo, hi): False for a missing value
Between(x, lo, hi) == RLe(RInt(lo), x) /\ RLe(x, RInt(hi))

TemperatureError == "Temperature out of range!"
HumidityError == "Humidity not in [0,1]!"
WindError == "Negative wind speed detected!"

\* the humidity check made before the temperature check
validateHumidityFirst(f) ==
    IF ~(\A i \in DOMAIN f.rows : Between(f.rows[i].hum, 0, 1))
    THEN HumidityError
    ELSE IF ~(\A i \in DOMAIN f.rows : Between(f.rows[i].temp, -50, 50))
    THEN TemperatureError
    ELSE IF f.hasWind /\ (\E i \in DOMAIN f.rows : RLt(f.rows[i].wind, RInt(0)))
    THEN WindError
    ELSE "True"

validate(f) ==
    IF ~(\A i \in DOMAIN f.rows : Between(f.rows[i].temp, -50, 50))
    THEN TemperatureError
    ELSE IF ~(\A i \in DOMAIN f.rows : Between(f.rows[i].hum, 0, 1))
    THEN HumidityError
    ELSE IF f.hasWind /\ (\E i \in DOMAIN f.rows : RLt(f.rows[i].wind, RInt(0)))
    THEN WindError
    ELSE "True"

Validate ==
    /\ vres = "pending"
    /\ vres' = validate(dailyFile)
    /\ UNCHANGED <<dailyFile, windVars, transVars, dagVars, loadVars>>

----------------------------------------------------------------------------
(* Validate: validate over bounded daily datasets *)

DailyInputs ==
    [day : {0},
     temp : {NaN, RInt(-51), RInt(0), RInt(51)},
     hum : {NaN, Rat(1, 2), Rat(6, 5)},
     wind : {NaN, RInt(-3), RInt(5)},
     wind_strength : {""}]

InitValidate ==
    /\ dailyFile \in [hasWind : BOOLEAN, rows : SeqsUpTo(DailyInputs, MaxDailyRows)]
    /\ vres = "pending"
    /\ WindIdle /\ TransIdle /\ DagIdle /\ LoadIdle

NextValidate == Validate

SpecValidate == InitValidate /\ [][NextValidate]_vars

\* a missing value lies in no interval
Outside(x, lo, hi) == IsNaN(x) \/ RLt(x, RInt(lo)) \/ RLt(RInt(hi), x)

SomeTemperatureOut == \E i \in DOMAIN dailyFile.rows : Outside(dailyFile.rows[i].temp, -50, 50)
SomeHumidityOut == \E i \in DOMAIN dailyFile.rows : Outside(dailyFile.rows[i].hum, 0, 1)
SomeWindNegative ==
    dailyFile.hasWind /\ \E i \in DOMAIN dailyFile.rows : RLt(dailyFile.rows[i].wind, RInt(0))

\* C3: validate reports the first failing check in the order temperature,
\* humidity, wind speed: the temperature error if a temperature is outside
\* [-50,50]; otherwise the humidity error if a humidity is outside [0,1];
\* otherwise the wind error if there is a wind column with a value < 0;
\* otherwise it passes.
C3_FirstFailingCheck ==
    vres # "pending" =>
        /\ SomeTemperatureOut => vres = TemperatureError
        /\ (~SomeTemperatureOut /\ SomeHumidityOut) => vres = HumidityError
        /\ (~SomeTemperatureOut /\ ~SomeHumidityOut /\ SomeWindNegative) => vres = WindError
        /\ (~SomeTemperatureOut /\ ~SomeHumidityOut /\ ~SomeWindNegative) => vres = "True"

\* a dataset whose first row fails the humidity and the wind check and whose
\* second row fails the temperature check was reported as a temperature error
C3_Witness ==
    /\ vres = TemperatureError
    /\ dailyFile.hasWind
    /\ Len(dailyFile.rows) = 2
    /\ dailyFile.rows[1] = [day |-> 0, temp |-> RInt(0), hum |-> Rat(6, 5),
                            wind |-> RInt(-3), wind_strength |-> ""]
    /\ dailyFile.rows[2].temp = RInt(51)

----------------------------------------------------------------------------
(* Aggregate: transform and validate over bounded raw files *)

AggDates == {BadDate, Stamp(0, 0), Stamp(2, 1), Stamp(2, 0), Stamp(3, 1), Stamp(9, 0)}

AggInputs == Rows(AggDates, {RInt(10)}, {Rat(1, 2)}, {RInt(20)}, {"nan", "rain", "snow"})

InitAgg ==
    /\ TransStart(AggInputs)
    /\ dailyFile = [hasWind |-> TRUE, rows |-> <<>>]
    /\ vres = "none"
    /\ WindIdle /\ DagIdle /\ LoadIdle

NextAgg == Clean \/ DailyAgg \/ MonthlyAgg \/ Validate

SpecAgg == InitAgg /\ [][NextAgg]_vars

DailyDone == tpc \in {"daily", "returned"}
Returned == tpc = "returned"

ObservedDays == {DayOf(df[i].ts) : i \in DOMAIN df}
ObservedMonths == {MonthOf(df[i].ts) : i \in DOMAIN df}

DayRows(d) == {i \in DOMAIN daily : daily[i].day = d}
MonthRows(m) == {i \in DOMAIN monthly : monthly[i].month = PeriodStr(m)}

\* C8: every day with a cleaned observation is in exactly one daily row and
\* every month with a cleaned observation in exactly one monthly row (after the
\* join of the modes); no day and no month is in two rows.
C8_Completeness ==
    /\ DailyDone =>
        /\ \A d \in ObservedDays : Cardinality(DayRows(d)) = 1
        /\ \A i, j \in DOMAIN daily : daily[i].day = daily[j].day => i = j
    /\ Returned =>
        /\ \A m \in ObservedMonths : Cardinality(MonthRows(m)) = 1
        /\ \A i, j \in DOMAIN monthly : monthly[i].month = monthly[j].month => i = j

\* three observations, two of them on one UTC day with different precipitation,
\* the third two months later: rows for three months, one day row for the two
C8_Witness ==
    /\ Returned
    /\ Len(df) = 3
    /\ Cardinality(ObservedDays) = 2
    /\ Cardinality(ObservedMonths) = 2
    /\ Len(monthly) = 3
    /\ \E i, j \in DOMAIN df : i # j /\ df[i].ts = df[j].ts /\ df[i].precip # df[j].precip

MonthPrecip(label) ==
    LET g == SelectSeq(df, LAMBDA r : PeriodStr(MonthOf(r.ts)) = label)
    IN  SelectSeq(Column(g, "precip"), LAMBDA v : v # "nan")

\* C9: a monthly row's mode_precip_type is the most frequent non-missing
\* precipitation type of the month's cleaned observations, the first in sorted
\* order among equally frequent ones, and missing when the month has none; the
\* month's row is there either way.
C9_ModalPrecip ==
    Returned =>
        /\ \A m \in ObservedMonths : MonthRows(m) # {}
        /\ \A i \in DOMAIN monthly :
            LET x == MonthPrecip(monthly[i].month)
                v == monthly[i].mode_precip_type
            IN  IF x = <<>> THEN v = "nan"
                ELSE /\ v \in Range(x)
                     /\ \A w \in Range(x) : Count(x, w) <= Count(x, v)
                     /\ \A w \in Range(x) :
                            Count(x, w) = Count(x, v) => PrecipRank(v) <= PrecipRank(w)

\* a month observed as snow, rain, rain has the mode rain
C9_Witness ==
    /\ Returned
    /\ \E i \in DOMAIN monthly :
        /\ monthly[i].mode_precip_type = "rain"
        /\ Count(MonthPrecip(monthly[i].month), "rain") = 2
        /\ Count(MonthPrecip(monthly[i].month), "snow") = 1
        /\ MonthPrecip(monthly[i].month)[1] = "snow"

SpanDays ==
    IF ObservedDays = {} THEN {} ELSE SetMin(ObservedDays)..SetMax(ObservedDays)

\* C10: the daily aggregate has one row for every day from the first to the last
\* observed one; the rows of days without an observation have missing means and a
\* missing wind_strength; and when there is such a day, validate fails with the
\* temperature error although every observation is in range.
C10_GapDaysFailValidation ==
    /\ DailyDone =>
        /\ {daily[i].day : i \in DOMAIN daily} = SpanDays
        /\ Len(daily) = Cardinality(SpanDays)
        /\ \A i \in DOMAIN daily :
            daily[i].day \notin ObservedDays =>
                /\ IsNaN(daily[i].temp) /\ IsNaN(daily[i].hum) /\ IsNaN(daily[i].wind)
                /\ daily[i].wind_strength = "nan"
                /\ dailyFile.rows[i].wind_strength = ""
    /\ (vres \notin {"none", "pending"} /\ SpanDays # ObservedDays) => vres = TemperatureError

\* in-range observations on two days with an empty day between them: validate
\* failed with the temperature error
C10_Witness ==
    /\ vres = TemperatureError
    /\ Cardinality(ObservedDays) = 2
    /\ Len(daily) > 2
    /\ \A i \in DOMAIN df : Between(df[i].temp, -50, 50) /\ Between(df[i].hum, 0, 1)

----------------------------------------------------------------------------
(* Wind: wind_strength over bounded wind speeds *)

NextWind == Classify

InitWind == WindStart /\ TransIdle /\ ValIdle /\ DagIdle /\ LoadIdle

SpecWind == InitWind /\ [][NextWind]_vars

\* C1: every non-missing, non-negative wind speed gets a label: its m/s value
\* lies in exactly one interval of the scale, and that interval's label is
\* returned.
C1_EverySpeedLabelled ==
    (wpc = "done" /\ ~IsNaN(kmh) /\ RLe(RInt(0), kmh)) =>
        /\ Cardinality(Hits(kmh)) = 1
        /\ strength \in Labels
        /\ \A i \in Hits(kmh) : strength = scale[i][3]

----------------------------------------------------------------------------
(* Dag: one run of the task graph *)

\* default_args["retries"]
Retries == 1

\* the loads hung below transform instead of validate
UpstreamLoadsBelowTransform(t) ==
    CASE t = "extract_data" -> {}
      [] t = "transform_data" -> {"extract_data"}
      [] OTHER -> {"transform_data"}

\* t_extract >> t_transform >> t_validate >> [t_load_daily, t_load_monthly]
Upstream(t) ==
    CASE t = "extract_data" -> {}
      [] t = "transform_data" -> {"extract_data"}
      [] t = "validate_data" -> {"transform_data"}
      [] t = "load_daily" -> {"validate_data"}
      [] t = "load_monthly" -> {"validate_data"}

Target(t) == IF t = "load_daily" THEN "daily_weather" ELSE "monthly_weather"

\* trigger rule all_success: a task instance starts (again, when up for retry)
\* once every upstream task has succeeded
Start(t) ==
    /\ task[t] \in {"none", "up_for_retry"}
    /\ \A u \in Upstream(t) : task[u] = "success"
    /\ task' = [task EXCEPT ![t] = "running"]
    /\ tries' = [tries EXCEPT ![t] = @ + 1]
    /\ at' = IF t = "transform_data" THEN "read" ELSE at
    /\ UNCHANGED <<files, written, windVars, transVars, valVars, loadVars>>

\* trigger rule all_success: a task with a failed upstream task never runs
UpstreamFailed(t) ==
    /\ task[t] = "none"
    /\ \E u \in Upstream(t) : task[u] \in {"failed", "upstream_failed"}
    /\ task' = [task EXCEPT ![t] = "upstream_failed"]
    /\ UNCHANGED <<tries, at, files, written, windVars, transVars, valVars, loadVars>>

\* the callable raised: retried while attempts are left, failed otherwise
Raise(t) ==
    /\ task[t] = "running"
    /\ task' = [task EXCEPT ![t] = IF tries[t] <= Retries THEN "up_for_retry" ELSE "failed"]
    /\ UNCHANGED <<tries, at, files, written, windVars, transVars, valVars, loadVars>>

\* extract, validate: return
Return(t) ==
    /\ t \in {"extract_data", "validate_data"}
    /\ task[t] = "running"
    /\ task' = [task EXCEPT ![t] = "success"]
    /\ UNCHANGED <<tries, at, files, written, windVars, transVars, valVars, loadVars>>

\* transform, line 82: daily.to_csv
TransformWriteDaily ==
    /\ task["transform_data"] = "running" /\ at = "read"
    /\ files' = files \cup {"daily_weather.csv"}
    /\ at' = "daily_written"
    /\ UNCHANGED <<task, tries, written, windVars, transVars, valVars, loadVars>>

\* transform, lines 106-108: monthly.to_csv and return
TransformWriteMonthly ==
    /\ task["transform_data"] = "running" /\ at = "daily_written"
    /\ files' = files \cup {"monthly_weather.csv"}
    /\ at' = "-"
    /\ task' = [task EXCEPT !["transform_data"] = "success"]
    /\ UNCHANGED <<tries, written, windVars, transVars, valVars, loadVars>>

\* load_daily, load_monthly: the table is written and the callable returns
LoadTask(t) ==
    /\ t \in {"load_daily", "load_monthly"}
    /\ task[t] = "running"
    /\ written' = written \cup {Target(t)}
    /\ task' = [task EXCEPT ![t] = "success"]
    /\ UNCHANGED <<tries, at, files, windVars, transVars, valVars, loadVars>>

NextDag ==
    \/ \E t \in Tasks : Start(t)
    \/ \E t \in Tasks : UpstreamFailed(t)
    \/ \E t \in Tasks : Raise(t)
    \/ \E t \in Tasks : Return(t)
    \/ \E t \in Tasks : LoadTask(t)
    \/ TransformWriteDaily
    \/ TransformWriteMonthly

InitDag == DagIdle /\ WindIdle /\ TransIdle /\ ValIdle /\ LoadIdle

SpecDag == InitDag /\ [][NextDag]_vars

Loads == {"load_daily", "load_monthly"}
Started == {"running", "success", "failed", "up_for_retry"}

\* C2: a load starts only after validate has succeeded in the run, and when
\* extract, transform or validate has failed no table of the sink is written in
\* the run, whatever transform has left on disk.
C2_LoadsGatedOnValidate ==
    /\ \A l \in Loads : task[l] \in Started => task["validate_data"] = "success"
    /\ written # {} => task["validate_data"] = "success"
    /\ (\E t \in Tasks \ Loads : task[t] = "failed") =>
            /\ written = {}
            /\ \A l \in Loads : task[l] \in {"none", "upstream_failed"}

\* validate failed for good after transform wrote both files: the loads are
\* marked upstream_failed and the sink is untouched
C2_Witness ==
    /\ task["validate_data"] = "failed"
    /\ files = {"daily_weather.csv", "monthly_weather.csv"}
    /\ \A l \in Loads : task[l] = "upstream_failed"
    /\ written = {}

----------------------------------------------------------------------------
(* Load: invocations of load_daily and load_monthly against the sink *)

\* the datasets the CSV files may hold when a load reads them
Datasets == {<<"a1", "a2">>, <<"b1">>}

\* if_exists="append" instead of "replace"
AppendRows(old, new) == old \o new

\* df.to_sql(name, con=conn, if_exists="replace", index=False)
ReplaceRows(old, new) == new

Ended == {"idle", "returned", "raised"}

\* load_daily(path) or load_monthly(path) is called
Call(i, t) ==
    /\ inv[i].pc \in Ended
    /\ inv[i].conn = "open" => leaks < MaxLeaks
    /\ leaks' = IF inv[i].conn = "open" THEN leaks + 1 ELSE leaks
    /\ inv' = [inv EXCEPT ![i] = [pc |-> "connect", target |-> t, frame |-> <<>>, conn |-> "none"]]
    /\ UNCHANGED <<table, lastLoaded, windVars, transVars, valVars, dagVars>>

\* lines 135, 149: conn = sqlite3.connect(DB_PATH)
Connect(i) ==
    /\ inv[i].pc = "connect"
    /\ inv' = [inv EXCEPT ![i].pc = "read", ![i].conn = "open"]
    /\ UNCHANGED <<table, lastLoaded, leaks, windVars, transVars, valVars, dagVars>>

\* lines 136, 150: df = pd.read_csv(path)
ReadCsv(i, d) ==
    /\ inv[i].pc = "read"
    /\ inv' = [inv EXCEPT ![i].pc = "write", ![i].frame = d]
    /\ UNCHANGED <<table, lastLoaded, leaks, windVars, transVars, valVars, dagVars>>

\* lines 138-143, 152-157: df.to_sql(...)
ToSql(i) ==
    /\ inv[i].pc = "write"
    /\ table' = [table EXCEPT ![inv[i].target] = ReplaceRows(@, inv[i].frame)]
    /\ lastLoaded' = [lastLoaded EXCEPT ![inv[i].target] = inv[i].frame]
    /\ inv' = [inv EXCEPT ![i].pc = "close"]
    /\ UNCHANGED <<leaks, windVars, transVars, valVars, dagVars>>

\* read_csv or to_sql raises: the exception leaves the function
Raised(i) ==
    /\ inv[i].pc \in {"read", "write"}
    /\ inv' = [inv EXCEPT ![i].pc = "raised"]
    /\ UNCHANGED <<table, lastLoaded, leaks, windVars, transVars, valVars, dagVars>>

\* lines 145, 159: conn.close(), and the function returns
Close(i) ==
    /\ inv[i].pc = "close"
    /\ inv' = [inv EXCEPT ![i].pc = "returned", ![i].conn = "closed"]
    /\ UNCHANGED <<table, lastLoaded, leaks, windVars, transVars, valVars, dagVars>>

NextLoad ==
    \/ \E i \in 1..MaxLoads, t \in Tables : Call(i, t)
    \/ \E i \in 1..MaxLoads : Connect(i)
    \/ \E i \in 1..MaxLoads, d \in Datasets : ReadCsv(i, d)
    \/ \E i \in 1..MaxLoads : ToSql(i)
    \/ \E i \in 1..MaxLoads : Raised(i)
    \/ \E i \in 1..MaxLoads : Close(i)

InitLoad == LoadIdle /\ WindIdle /\ TransIdle /\ ValIdle /\ DagIdle

SpecLoad == InitLoad /\ [][NextLoad]_vars

Writes(i, t) == inv[i].pc = "write" /\ inv[i].target = t /\ inv'[i].pc = "close"

C7_ConnectionReleased ==
    \A i \in 1..MaxLoads : inv[i].pc \in {"returned", "raised"} => inv[i].conn # "open"

====
